---------------------------- MODULE Spec2Model ----------------------------
(***************************************************************************)
(* Model of packages/gatsby/src/bootstrap/requires-writer.ts.              *)
(*                                                                         *)
(* Strings are sequences of one-character strings, so that segmentize,     *)
(* the parameter regular expression and the two string orders used by the  *)
(* code (code-unit order in lodash's orderBy, collation order in           *)
(* String.prototype.localeCompare) are computed rather than assumed.       *)
(* An absent (undefined) string property is the empty sequence: every      *)
(* string property of a page in the model is non-empty when present.       *)
(***************************************************************************)
EXTENDS Integers, Sequences, FiniteSets, TLC

(***************************************************************************)
(* Bounds of the model.                                                    *)
(***************************************************************************)
\* longest page list handed to the pure functions
MaxPages == 3
\* longest path handed to rankRoute before a segment is added to it
MaxPathLen == 5
\* writeAll invocations whose writes may be outstanding at once
MaxInFlight == 2
\* stimuli of the environment (store events, direct calls) in one behaviour
MaxStimuli == 2
\* writes or renames that fail in one behaviour
MaxFailures == 1
\* calls of debouncedWriteAll between two runs that are told apart
MaxBurst == 2

(***************************************************************************)
(* Characters and the two orders on them.                                  *)
(***************************************************************************)
Chars == {"/", "*", ":", "a", "b", "B", "c"}

\* UTF-16 code units, the order of the < operator on strings
CodeUnit(ch) ==
  CASE ch = "*" -> 42
    [] ch = "/" -> 47
    [] ch = ":" -> 58
    [] ch = "B" -> 66
    [] ch = "a" -> 97
    [] ch = "b" -> 98
    [] ch = "c" -> 99

\* primary collation weights (root collation): punctuation before letters,
\* among the punctuation used here  :  <  *  <  / , and a letter has the
\* weight of its lower-case form
CollationRank(ch) ==
  CASE ch = ":" -> 1
    [] ch = "*" -> 2
    [] ch = "/" -> 3
    [] ch = "a" -> 4
    [] ch = "b" -> 5
    [] ch = "B" -> 5
    [] ch = "c" -> 6

\* tertiary collation weights: the lower-case letter before the upper-case one
CaseRank(ch) == IF ch = "B" THEN 1 ELSE 0

RECURSIVE primaryCompare(_, _)
\* the comparison at the primary level: a proper prefix comes first
primaryCompare(a, b) ==
  IF a = <<>> /\ b = <<>> THEN 0
  ELSE IF a = <<>> THEN -1
  ELSE IF b = <<>> THEN 1
  ELSE IF CollationRank(Head(a)) < CollationRank(Head(b)) THEN -1
  ELSE IF CollationRank(Head(a)) > CollationRank(Head(b)) THEN 1
  ELSE primaryCompare(Tail(a), Tail(b))

RECURSIVE caseCompare(_, _)
\* the comparison at the tertiary level, of strings equal at the primary one
caseCompare(a, b) ==
  IF a = <<>> \/ b = <<>> THEN 0
  ELSE IF CaseRank(Head(a)) < CaseRank(Head(b)) THEN -1
  ELSE IF CaseRank(Head(a)) > CaseRank(Head(b)) THEN 1
  ELSE caseCompare(Tail(a), Tail(b))

\* a.localeCompare(b): negative, zero or positive.  The levels are compared
\* one after the other, each over the whole strings.
localeCompare(a, b) ==
  LET primary == primaryCompare(a, b)
  IN  IF primary # 0 THEN primary ELSE caseCompare(a, b)

RECURSIVE stringLess(_, _)
\* a < b on strings (code-unit order), as lodash's compareAscending uses it
stringLess(a, b) ==
  IF b = <<>> THEN FALSE
  ELSE IF a = <<>> THEN TRUE
  ELSE IF CodeUnit(Head(a)) < CodeUnit(Head(b)) THEN TRUE
  ELSE IF CodeUnit(Head(a)) > CodeUnit(Head(b)) THEN FALSE
  ELSE stringLess(Tail(a), Tail(b))

(***************************************************************************)
(* rankRoute and its helpers.                                              *)
(***************************************************************************)
SEGMENT_POINTS == 4
STATIC_POINTS == 3
DYNAMIC_POINTS == 2
SPLAT_PENALTY == 1
ROOT_POINTS == 1

isRootSegment(segment) == segment = <<>>

\* paramRe = /^:(.+)/
isDynamic(segment) == Len(segment) >= 2 /\ Head(segment) = ":"

isSplat(segment) == segment = <<"*">>

RECURSIVE stripLeadingSlashes(_)
stripLeadingSlashes(s) ==
  IF s # <<>> /\ Head(s) = "/" THEN stripLeadingSlashes(Tail(s)) ELSE s

RECURSIVE stripTrailingSlashes(_)
stripTrailingSlashes(s) ==
  IF s # <<>> /\ s[Len(s)] = "/"
    THEN stripTrailingSlashes(SubSeq(s, 1, Len(s) - 1))
    ELSE s

RECURSIVE splitOnSlash(_)
\* String.prototype.split("/"): the empty string splits into one empty piece
splitOnSlash(s) ==
  IF s = <<>> THEN << <<>> >>
  ELSE LET rest == splitOnSlash(Tail(s))
       IN  IF Head(s) = "/"
             THEN << <<>> >> \o rest
             ELSE << <<Head(s)>> \o Head(rest) >> \o Tail(rest)

\* segmentize without the replace of line 45
segmentizeUnstripped(uri) == splitOnSlash(uri)

segmentize(uri) == splitOnSlash(stripTrailingSlashes(stripLeadingSlashes(uri)))

\* a reducer that adds nothing for a segment that is not a splat
segmentScoreOfSplatOnly(segment) ==
  IF isSplat(segment) THEN 0 - SPLAT_PENALTY ELSE 0

segmentScore(segment) ==
  IF isRootSegment(segment) THEN SEGMENT_POINTS + ROOT_POINTS
  ELSE IF isDynamic(segment) THEN SEGMENT_POINTS + DYNAMIC_POINTS
  ELSE IF isSplat(segment) THEN SEGMENT_POINTS - (SEGMENT_POINTS + SPLAT_PENALTY)
  ELSE SEGMENT_POINTS + STATIC_POINTS

RECURSIVE sumScores(_)
sumScores(segments) ==
  IF segments = <<>> THEN 0
  ELSE segmentScore(Head(segments)) + sumScores(Tail(segments))

rankRoute(path) == sumScores(segmentize(path))

(***************************************************************************)
(* match(pattern, uri) of @gatsbyjs/reach-router/lib/utils: pick() with a  *)
(* single route.  Segments are compared positionally; a segment starting   *)
(* with "*" matches the whole rest (also an empty rest); a ":name" segment *)
(* matches any segment unless the uri is the root; anything else must be   *)
(* equal.                                                                  *)
(***************************************************************************)
routerIsSplat(segment) == segment # <<>> /\ Head(segment) = "*"

RECURSIVE matchSegments(_, _, _)
matchSegments(routeSegments, uriSegments, isRootUri) ==
  IF routeSegments = <<>> /\ uriSegments = <<>> THEN TRUE
  ELSE IF routeSegments # <<>> /\ routerIsSplat(Head(routeSegments)) THEN TRUE
  ELSE IF uriSegments = <<>> THEN FALSE
  ELSE IF routeSegments = <<>> THEN FALSE
  ELSE IF isDynamic(Head(routeSegments)) /\ ~isRootUri
    THEN matchSegments(Tail(routeSegments), Tail(uriSegments), isRootUri)
  ELSE IF Head(routeSegments) # Head(uriSegments) THEN FALSE
  ELSE matchSegments(Tail(routeSegments), Tail(uriSegments), isRootUri)

match(pattern, uri) ==
  LET uriSegments == segmentize(uri)
  IN  matchSegments(segmentize(pattern), uriSegments, uriSegments[1] = <<>>)


(***************************************************************************)
(* State.                                                                  *)
(***************************************************************************)
VARIABLES
  GATSBY_MAJOR,                 \* _CFLAGS_.GATSBY_MAJOR, fixed by the build
  GATSBY_EXPERIMENTAL_DEV_SSR,  \* process.env.GATSBY_EXPERIMENTAL_DEV_SSR
  gatsby_executing_command,     \* process.env.gatsby_executing_command
  pages,                        \* store.getState().pages, in insertion order
  visitedPages,                 \* store.getState().visitedPages.get("server")
  derived,                      \* what lines 189-209 compute from the store state
  listenerStarted,
  startListenerCalls,           \* history: "none", "once" or "again"
  handlers,                     \* emitter: handlers registered per event name
  timerId,                      \* debounce: a timer is armed
  timerRemaining,               \* debounce: time until the armed timer fires
  lastArgs,                     \* debounce: a call awaits the trailing edge
  lastCallTime,                 \* debounce: time since the last call, -1 if none
  pendingCalls,                 \* history: calls since the debounced function ran
  lastBurst,                    \* history: calls its latest run stood for
  lastHash,                     \* <<>> for null, <<hash>> otherwise
  passes,                       \* writeAll invocations past their first await
  virtualModules,               \* what writeModule has written, by module name
  files,                        \* the destination files in .cache
  tmpFiles,                     \* temporary files in .cache: <<file, owner>>
  lastCall,                     \* history: the latest writeAll invocation
  budget,                       \* environment stimuli left
  failures,                     \* write failures left
  fnArg,                        \* pure-function harness: the page list
  fnRes,                        \* pure-function harness: latest result
  fnBase,                       \* pure-function harness: first result
  rankedPath,                   \* rankRoute: the path handed in
  score,                        \* rankRoute: <<>> before the call, <<result>> after
  shorter,                      \* rankRoute: the result for the path before a
                                \* segment was added to it, <<>> if none was
  segment                       \* rankRoute: the segment added, <<>> if none

envVars == <<GATSBY_MAJOR, GATSBY_EXPERIMENTAL_DEV_SSR, gatsby_executing_command>>
storeVars == <<pages, visitedPages, derived>>
listenerVars == <<listenerStarted, handlers>>
debounceVars == <<timerId, timerRemaining, lastArgs, lastCallTime, pendingCalls,
                  lastBurst>>
writerVars == <<lastHash, passes, virtualModules, files, tmpFiles, lastCall>>
rankVars == <<rankedPath, score, shorter, segment>>
fnVars == <<fnArg, fnRes, fnBase, rankVars>>
\* what neither the debounce nor writeAll touches
restVars == <<envVars, storeVars, listenerVars, startListenerCalls, budget,
              failures, fnVars>>
vars == <<envVars, storeVars, listenerVars, startListenerCalls, debounceVars,
          writerVars, budget, failures, fnVars>>

(***************************************************************************)
(* Pages.                                                                  *)
(***************************************************************************)
Undefined == <<>>

P1 == [path |-> <<"/", "a">>, matchPath |-> <<"/", "a", "/", "*">>,
       mode |-> "SSG", component |-> <<"a">>, componentChunkName |-> <<"c", "a">>]
P2 == [path |-> <<"/", "b">>, matchPath |-> <<"/", "a", "/", "*">>,
       mode |-> "SSG", component |-> <<"b">>, componentChunkName |-> <<"c", "b">>]
P3 == [path |-> <<"/", "a", "/", "b">>, matchPath |-> Undefined,
       mode |-> "SSG", component |-> <<"c">>, componentChunkName |-> <<"c", "a">>]
P4 == [path |-> <<"/", "B", "/", "a">>, matchPath |-> Undefined,
       mode |-> "DSG", component |-> <<"b">>, componentChunkName |-> <<"c", "b">>]
P5 == [path |-> <<"/", "c">>, matchPath |-> <<"/", ":", "a", "/", "*">>,
       mode |-> "SSR", component |-> <<"c">>, componentChunkName |-> <<"c", "c">>]
\* a matchPath with a named splat, as a [...a] file system route gives it
P6 == [path |-> <<"/", "b", "/", "c">>, matchPath |-> <<"/", "a", "/", "*", "a">>,
       mode |-> "SSG", component |-> <<"b">>, componentChunkName |-> <<"c", "a">>]

\* the pages the pure functions are applied to
AllPages == {P1, P2, P3, P4, P5, P6}
\* the pages the store creates and deletes
StorePages == {P1}
\* the chunk names the dev server may report as visited
VisitableChunks == {<<"c", "a">>}

\* getPageMode of ../utils/page-mode: the rendering mode of the page, one of
\* "SSG", "DSG" and "SSR"
getPageMode(page) == page.mode

(***************************************************************************)
(* getComponents.                                                          *)
(***************************************************************************)
pickComponentFields(page) ==
  [component |-> page.component, componentChunkName |-> page.componentChunkName]

RECURSIVE uniqByChunkNameLast(_, _)
\* a uniqBy that keeps the last occurrence in place of the first
uniqByChunkNameLast(list, seen) ==
  IF list = <<>> THEN <<>>
  ELSE IF \E i \in 2..Len(list) :
            list[i].componentChunkName = Head(list).componentChunkName
    THEN uniqByChunkNameLast(Tail(list), seen)
    ELSE <<Head(list)>> \o uniqByChunkNameLast(Tail(list), seen)

RECURSIVE uniqByChunkName(_, _)
\* _.uniqBy(list, c => c.componentChunkName): the first occurrence is kept
uniqByChunkName(list, seen) ==
  IF list = <<>> THEN <<>>
  ELSE IF Head(list).componentChunkName \in seen
    THEN uniqByChunkName(Tail(list), seen)
    ELSE <<Head(list)>> \o
         uniqByChunkName(Tail(list), seen \cup {Head(list).componentChunkName})

RECURSIVE insertByChunkName(_, _)
\* stable insertion: c goes before the first record whose name is greater
insertByChunkName(sorted, c) ==
  IF sorted = <<>> THEN <<c>>
  ELSE IF stringLess(c.componentChunkName, Head(sorted).componentChunkName)
    THEN <<c>> \o sorted
    ELSE <<Head(sorted)>> \o insertByChunkName(Tail(sorted), c)

\* an orderBy that leaves the list as it is
orderByChunkNameUnsorted(list, sorted) == list

RECURSIVE orderByChunkName(_, _)
\* _.orderBy(list, c => c.componentChunkName): ascending and stable
orderByChunkName(list, sorted) ==
  IF list = <<>> THEN sorted
  ELSE orderByChunkName(Tail(list), insertByChunkName(sorted, Head(list)))

getComponents(pageList) ==
  orderByChunkName(
    uniqByChunkName([i \in 1..Len(pageList) |-> pickComponentFields(pageList[i])], {}),
    <<>>)

(***************************************************************************)
(* getMatchPaths.                                                          *)
(***************************************************************************)
\* reporter.panic is reached when the matchPath handed in is undefined
createMatchPathEntryPanics(page) == page.matchPath = Undefined

createMatchPathEntry(page, index) ==
  [path |-> page.path, matchPath |-> page.matchPath, index |-> index,
   score |-> rankRoute(page.matchPath)]

\* the condition of the first forEach, lines 112-120
hasOwnMatchPath(page) ==
  IF GATSBY_MAJOR = "4"
    THEN page.matchPath # Undefined /\ getPageMode(page) = "SSG"
    ELSE page.matchPath # Undefined

RECURSIVE collectMatchPathPages(_, _)
collectMatchPathPages(pageList, index) ==
  IF index > Len(pageList) THEN <<>>
  ELSE (IF hasOwnMatchPath(pageList[index])
          THEN <<createMatchPathEntry(pageList[index], index)>>
          ELSE <<>>)
       \o collectMatchPathPages(pageList, index + 1)

\* the find of lines 132-135 without the test of the page's own matchPath
isInsideMatchPathOfAnyPage(page, matchPathPages) ==
  \E i \in 1..Len(matchPathPages) :
    match(matchPathPages[i].matchPath, page.path)

isInsideMatchPath(page, matchPathPages) ==
  \E i \in 1..Len(matchPathPages) :
    page.matchPath = Undefined /\ match(matchPathPages[i].matchPath, page.path)

RECURSIVE collectNewMatches(_, _, _)
collectNewMatches(pageList, matchPathPages, index) ==
  IF index > Len(pageList) THEN <<>>
  ELSE (IF isInsideMatchPath(pageList[index], matchPathPages)
          THEN <<createMatchPathEntry(
                   [pageList[index] EXCEPT !.matchPath = pageList[index].path],
                   index)>>
          ELSE <<>>)
       \o collectNewMatches(pageList, matchPathPages, index + 1)

\* the comparator with the scores subtracted the other way round
compareMatchPathsAscending(a, b) ==
  LET order == a.score - b.score
  IN  IF order # 0 THEN order ELSE localeCompare(a.matchPath, b.matchPath)

\* the comparator of lines 154-164
compareMatchPaths(a, b) ==
  LET order == b.score - a.score
  IN  IF order # 0 THEN order ELSE localeCompare(a.matchPath, b.matchPath)

RECURSIVE insertMatchPath(_, _)
\* stable insertion: e goes before the first entry that compares greater
insertMatchPath(sorted, e) ==
  IF sorted = <<>> THEN <<e>>
  ELSE IF compareMatchPaths(Head(sorted), e) > 0
    THEN <<e>> \o sorted
    ELSE <<Head(sorted)>> \o insertMatchPath(Tail(sorted), e)

RECURSIVE sortMatchPaths(_, _)
\* Array.prototype.sort with the comparator: a stable sort
sortMatchPaths(list, sorted) ==
  IF list = <<>> THEN sorted
  ELSE sortMatchPaths(Tail(list), insertMatchPath(sorted, Head(list)))

\* matchPathPages as it stands at line 153, before the sort
allMatchPathPages(pageList) ==
  LET matchPathPages == collectMatchPathPages(pageList, 1)
  IN  IF Len(matchPathPages) # 0
        THEN matchPathPages \o collectNewMatches(pageList, matchPathPages, 1)
        ELSE matchPathPages

\* the sorted entries, with their scores, before the final map
rankedMatchPaths(pageList) == sortMatchPaths(allMatchPathPages(pageList), <<>>)

getMatchPaths(pageList) ==
  LET ranked == rankedMatchPaths(pageList)
  IN  [i \in 1..Len(ranked) |->
         [path |-> ranked[i].path, matchPath |-> ranked[i].matchPath]]

\* getMatchPaths throws (reporter.panic) instead of returning
getMatchPathsPanics(pageList) ==
  LET matchPathPages == collectMatchPathPages(pageList, 1)
  IN  \E i \in 1..Len(pageList) :
        /\ Len(matchPathPages) # 0
        /\ isInsideMatchPath(pageList[i], matchPathPages)
        /\ createMatchPathEntryPanics(
             [pageList[i] EXCEPT !.matchPath = pageList[i].path])

(***************************************************************************)
(* createHash.  The MD5 digest of the JSON text is modelled as the         *)
(* serialized triple itself: equal inputs give equal hashes and collisions *)
(* are left out.                                                           *)
(***************************************************************************)
createHash(matchPaths, components, cleanedSSRVisitedPageComponents) ==
  [matchPaths |-> matchPaths, components |-> components,
   cleanedSSRVisitedPageComponents |-> cleanedSSRVisitedPageComponents]


(***************************************************************************)
(* The artifacts writeAll derives.                                         *)
(***************************************************************************)
Files == {"sync-requires.js", "async-requires.js", "match-paths.json"}
Modules == {"$virtual/ssr-sync-requires", "$virtual/sync-requires.js",
            "$virtual/async-requires.js", "$virtual/match-paths.json"}
Slots == 1..MaxInFlight

NoContent == [kind |-> "absent", entries |-> <<>>]

\* lines 221-227
lazySyncRequires(cleanedSSRVisitedPageComponents) ==
  [kind |-> "exports.ssrComponents", entries |-> cleanedSSRVisitedPageComponents]

\* lines 236-248
syncRequires(components) ==
  [kind |-> "exports.components = preferDefault(require)", entries |-> components]

\* lines 251-297: the develop shape adds exports.head
asyncRequires(components) ==
  [kind |-> IF gatsby_executing_command = "develop"
              THEN "exports.components = import ?export=default; exports.head"
              ELSE "exports.components = import",
   entries |-> components]

\* line 326: JSON.stringify(matchPaths, null, 4)
matchPathsJson(matchPaths) == [kind |-> "json", entries |-> matchPaths]

\* the data handed to writeAndMove for a destination file
fileData(file, hash) ==
  CASE file = "sync-requires.js" -> syncRequires(hash.components)
    [] file = "async-requires.js" -> asyncRequires(hash.components)
    [] file = "match-paths.json" -> matchPathsJson(hash.matchPaths)

NoHash == createHash(<<>>, <<>>, <<>>)

\* committed: every destination file existed when the pass began
IdlePass ==
  [active |-> FALSE, origin |-> "none", rejected |-> FALSE, hash |-> NoHash,
   fileState |-> [f \in Files |-> "idle"], committed |-> FALSE]

\* kind: what the call did; snapshot: the store state it read; before: lastHash
\* when it began; repeat: it came right after a call that wrote and resolved,
\* on the same store state; outcome: how its Promise settled
NoCall ==
  [kind |-> "none", snapshot |-> <<<<>>, {}>>, slot |-> 0, outcome |-> "none",
   before |-> <<>>, repeat |-> FALSE]

(***************************************************************************)
(* writeAll, up to its await: lines 187-328.                               *)
(***************************************************************************)
\* the filter of lines 200-202 and the test of line 194 left out
allComponentsAsVisited(components, ssrVisitedPageComponents) == components

\* line 200: the catalog components whose chunk name was visited
cleanSSRVisitedPageComponents(components, ssrVisitedPageComponents) ==
  IF GATSBY_EXPERIMENTAL_DEV_SSR
    THEN SelectSeq(components,
                   LAMBDA c : c.componentChunkName \in ssrVisitedPageComponents)
    ELSE <<>>

\* the fingerprint writeAll computes of a store state, lines 189-209
hashOf(pageList, visited) ==
  LET components == getComponents(pageList)
  IN  createHash(getMatchPaths(pageList), components,
                 cleanSSRVisitedPageComponents(components, visited))

\* line 211
hashUnchanged(newHash) == lastHash = <<newHash>>

\* the assignment of line 216 left out
hashAfterChangeForgotten(newHash) == lastHash

\* line 216
hashAfterChange(newHash) == <<newHash>>

HasFreeSlot == \E s \in Slots : ~passes[s].active
FreeSlot == CHOOSE s \in Slots : ~passes[s].active /\ \A t \in 1..(s - 1) : passes[t].active

noteCall(kind, slot) ==
  lastCall' = [kind |-> kind, snapshot |-> <<pages, visitedPages>>, slot |-> slot,
               outcome |-> IF kind = "written" THEN "pending" ELSE "none",
               before |-> lastHash,
               repeat |-> /\ lastCall.kind = "written"
                          /\ lastCall.outcome = "resolved"
                          /\ lastCall.snapshot = <<pages, visitedPages>>]

\* lines 189-209 on a store state: whether getMatchPaths throws, and newHash
computed(pageList, visited) ==
  [panics |-> getMatchPathsPanics(pageList), newHash |-> hashOf(pageList, visited)]

\* writeAll reads its derivations from the variable derived, which every change
\* of the store keeps equal to computed(pages, visitedPages)
writeAll(origin) ==
  LET newHash == derived.newHash
  IN  IF derived.panics
        THEN /\ noteCall("panicked", 0)
             /\ UNCHANGED <<lastHash, passes, virtualModules, files, tmpFiles>>
      ELSE IF hashUnchanged(newHash)
        THEN /\ noteCall("skipped", 0)
             /\ UNCHANGED <<lastHash, passes, virtualModules, files, tmpFiles>>
      ELSE /\ HasFreeSlot
           /\ lastHash' = hashAfterChange(newHash)
           /\ virtualModules' =
                [m \in Modules |->
                   CASE m = "$virtual/ssr-sync-requires" ->
                          IF GATSBY_EXPERIMENTAL_DEV_SSR
                            THEN lazySyncRequires(newHash.cleanedSSRVisitedPageComponents)
                            ELSE virtualModules[m]
                     [] m = "$virtual/sync-requires.js" ->
                          fileData("sync-requires.js", newHash)
                     [] m = "$virtual/async-requires.js" ->
                          fileData("async-requires.js", newHash)
                     [] m = "$virtual/match-paths.json" ->
                          fileData("match-paths.json", newHash)]
           /\ passes' = [passes EXCEPT ![FreeSlot] =
                [active |-> TRUE, origin |-> origin, rejected |-> FALSE,
                 hash |-> newHash, fileState |-> [f \in Files |-> "writing"],
                 committed |-> \A f \in Files : files[f] # NoContent]]
           /\ noteCall("written", FreeSlot)
           /\ UNCHANGED <<files, tmpFiles>>

(***************************************************************************)
(* _.debounce(fn, 500, {leading: false}): lines 333-348.                   *)
(***************************************************************************)
WAIT == 500
\* the debounce set up with a leading edge, or without a trailing one
leadingEdgeOn == TRUE
trailingEdgeOff == FALSE
\* the clock advances in half windows
TickStep == WAIT \div 2
leading == FALSE
trailing == TRUE

shouldInvoke == lastCallTime = -1 \/ lastCallTime >= WAIT
remainingWait == WAIT - lastCallTime

Min(a, b) == IF a < b THEN a ELSE b

\* the debounced function runs: lines 334-341
invokeFunc(calls) ==
  /\ lastArgs' = FALSE
  /\ pendingCalls' = 0
  /\ lastBurst' = calls
  /\ writeAll("debounced")

\* the call is kept for the trailing edge
keepCall ==
  /\ lastArgs' = TRUE
  /\ pendingCalls' = Min(pendingCalls + 1, MaxBurst)
  /\ UNCHANGED <<lastBurst, writerVars>>

\* a call of debouncedWriteAll()
debouncedWriteAll ==
  /\ lastCallTime' = 0
  /\ IF timerId
       THEN /\ keepCall
            /\ UNCHANGED <<timerId, timerRemaining>>
       ELSE /\ timerId' = TRUE
            /\ timerRemaining' = WAIT
            /\ IF shouldInvoke /\ leading
                 THEN invokeFunc(Min(pendingCalls + 1, MaxBurst))
                 ELSE keepCall

\* the timer set by debounce fires
timerExpired ==
  /\ timerId
  /\ timerRemaining = 0
  /\ IF shouldInvoke
       THEN /\ timerId' = FALSE
            /\ timerRemaining' = 0
            /\ IF trailing /\ lastArgs
                 THEN invokeFunc(pendingCalls)
                 ELSE /\ lastArgs' = FALSE
                      /\ pendingCalls' = 0
                      /\ UNCHANGED <<lastBurst, writerVars>>
       ELSE /\ timerRemaining' = remainingWait
            /\ UNCHANGED <<timerId, lastArgs, pendingCalls, lastBurst, writerVars>>
  /\ UNCHANGED <<lastCallTime, restVars>>

\* time passes, up to the moment the armed timer is due
Tick ==
  /\ timerId => timerRemaining > 0
  /\ LET d == IF timerId THEN Min(TickStep, timerRemaining) ELSE TickStep
     IN  /\ lastCallTime' = IF lastCallTime = -1 THEN -1 ELSE Min(WAIT, lastCallTime + d)
         /\ timerRemaining' = IF timerId THEN timerRemaining - d ELSE 0
  /\ UNCHANGED <<timerId, lastArgs, pendingCalls, lastBurst, writerVars, restVars>>


(***************************************************************************)
(* startListener: lines 354-394.                                           *)
(***************************************************************************)
Events == {"CREATE_SERVER_VISITED_PAGE", "CREATE_PAGE", "CREATE_PAGE_END",
           "DELETE_PAGE", "DELETE_PAGE_BY_PATH"}

\* the guard of line 357 left out
listenerGuardOff == FALSE

\* line 357
listenerGuard == listenerStarted

\* the events startListener subscribes to
subscribed(ev) ==
  IF ev = "CREATE_SERVER_VISITED_PAGE" THEN GATSBY_EXPERIMENTAL_DEV_SSR ELSE TRUE

startListener ==
  /\ startListenerCalls' = IF startListenerCalls = "none" THEN "once" ELSE "again"
  /\ IF listenerGuard
       THEN UNCHANGED listenerVars
       ELSE /\ listenerStarted' = TRUE
            /\ handlers' = [ev \in Events |->
                 IF subscribed(ev) THEN handlers[ev] + 1 ELSE handlers[ev]]
  /\ UNCHANGED <<envVars, storeVars, debounceVars, writerVars, budget, failures, fnVars>>

(***************************************************************************)
(* The store and the emitter of ../redux: an action changes the page table *)
(* and the emitter then runs the handlers registered for its name.  Each   *)
(* handler of this module calls debouncedWriteAll().                       *)
(***************************************************************************)
emit(ev) ==
  IF handlers[ev] > 0
    THEN debouncedWriteAll
    ELSE UNCHANGED <<debounceVars, writerVars>>

Stimulus ==
  /\ budget > 0
  /\ budget' = budget - 1
  /\ UNCHANGED <<envVars, listenerVars, startListenerCalls, failures, fnVars>>

Failure ==
  /\ failures > 0
  /\ failures' = failures - 1
  /\ UNCHANGED <<envVars, storeVars, listenerVars, startListenerCalls, budget, fnVars>>

InTable(page) == \E i \in 1..Len(pages) : pages[i] = page

CreatePage ==
  \E page \in StorePages :
    /\ Stimulus
    /\ ~InTable(page)
    /\ pages' = Append(pages, page)
    /\ UNCHANGED visitedPages
    /\ derived' = computed(pages', visitedPages')
    /\ emit("CREATE_PAGE")

CreatePageEnd ==
  /\ Stimulus
  /\ UNCHANGED storeVars
  /\ emit("CREATE_PAGE_END")

DeletePage ==
  \E page \in StorePages :
    /\ Stimulus
    /\ InTable(page)
    /\ pages' = SelectSeq(pages, LAMBDA q : q # page)
    /\ UNCHANGED visitedPages
    /\ derived' = computed(pages', visitedPages')
    /\ emit("DELETE_PAGE")

DeletePageByPath ==
  /\ Stimulus
  /\ UNCHANGED storeVars
  /\ emit("DELETE_PAGE_BY_PATH")

CreateServerVisitedPage ==
  \E chunk \in VisitableChunks :
    /\ Stimulus
    /\ GATSBY_EXPERIMENTAL_DEV_SSR
    /\ chunk \notin visitedPages
    /\ visitedPages' = visitedPages \cup {chunk}
    /\ UNCHANGED pages
    /\ derived' = computed(pages', visitedPages')
    /\ emit("CREATE_SERVER_VISITED_PAGE")

(***************************************************************************)
(* The exported functions called from outside this file.                   *)
(***************************************************************************)
CallWriteAll ==
  /\ Stimulus
  /\ writeAll("direct")
  /\ UNCHANGED <<storeVars, debounceVars>>

resetLastHash ==
  /\ Stimulus
  /\ lastHash' = <<>>
  /\ lastCall' = NoCall
  /\ UNCHANGED <<storeVars, debounceVars, passes, virtualModules, files, tmpFiles>>

(***************************************************************************)
(* writeAndMove, lines 299-314, after its synchronous part: fs.writeFile   *)
(* of the temporary file settles, then fs.move onto the destination.       *)
(* Promise.all (line 316) rejects with the first write that fails and      *)
(* resolves when all three have moved; the other writes go on either way.  *)
(***************************************************************************)
Settled(fileState) == \A f \in Files : fileState[f] \in {"done", "failed"}

\* the pass in slot s goes on with the new file states; it leaves when all settled
continuePass(s, fileState, rejected) ==
  /\ passes' = [passes EXCEPT ![s] =
       IF Settled(fileState)
         THEN IdlePass
         ELSE [@ EXCEPT !.fileState = fileState, !.rejected = rejected]]
  /\ lastCall' =
       IF lastCall.kind = "written" /\ lastCall.slot = s /\ lastCall.outcome = "pending"
          /\ (rejected \/ Settled(fileState))
         THEN [lastCall EXCEPT !.outcome = IF rejected THEN "rejected" ELSE "resolved"]
         ELSE lastCall

\* temporary files of a pass that has gone are nobody's
disown(tmp, s, fileState) ==
  IF Settled(fileState)
    THEN {IF t[2] = s THEN <<t[1], 0>> ELSE t : t \in tmp}
    ELSE tmp

WriteFileDone ==
  \E s \in Slots, f \in Files :
    /\ passes[s].active
    /\ passes[s].fileState[f] = "writing"
    /\ LET fileState == [passes[s].fileState EXCEPT ![f] = "moving"]
       IN  /\ continuePass(s, fileState, passes[s].rejected)
           /\ tmpFiles' = tmpFiles \cup {<<f, s>>}
    /\ UNCHANGED <<lastHash, virtualModules, files, debounceVars, restVars>>

WriteFileFail ==
  \E s \in Slots, f \in Files, partial \in BOOLEAN :
    /\ passes[s].active
    /\ passes[s].fileState[f] = "writing"
    /\ LET fileState == [passes[s].fileState EXCEPT ![f] = "failed"]
       IN  /\ continuePass(s, fileState, TRUE)
           /\ tmpFiles' = disown(IF partial THEN tmpFiles \cup {<<f, s>>} ELSE tmpFiles,
                                 s, fileState)
    /\ Failure
    /\ UNCHANGED <<lastHash, virtualModules, files, debounceVars>>

MoveDone ==
  \E s \in Slots, f \in Files :
    /\ passes[s].active
    /\ passes[s].fileState[f] = "moving"
    /\ LET fileState == [passes[s].fileState EXCEPT ![f] = "done"]
       IN  /\ continuePass(s, fileState, passes[s].rejected)
           /\ tmpFiles' = disown(tmpFiles \ {<<f, s>>}, s, fileState)
    /\ files' = [files EXCEPT ![f] = fileData(f, passes[s].hash)]
    /\ UNCHANGED <<lastHash, virtualModules, debounceVars, restVars>>

MoveFail ==
  \E s \in Slots, f \in Files :
    /\ passes[s].active
    /\ passes[s].fileState[f] = "moving"
    /\ LET fileState == [passes[s].fileState EXCEPT ![f] = "failed"]
       IN  /\ continuePass(s, fileState, TRUE)
           /\ tmpFiles' = disown(tmpFiles, s, fileState)
    /\ Failure
    /\ UNCHANGED <<lastHash, virtualModules, files, debounceVars>>

(***************************************************************************)
(* The process.                                                            *)
(***************************************************************************)
\* rankRoute is not being applied
NotRanked ==
  /\ rankedPath = <<>>
  /\ score = <<>>
  /\ shorter = <<>>
  /\ segment = <<>>

NotCalled == [called |-> FALSE, matchPaths |-> <<>>, components |-> <<>>]

\* the environments the process is started in: dev SSR exists under develop only
Environments == {<<"develop", TRUE>>, <<"build", FALSE>>}

\* the store when this module is loaded: empty, or with a page created and
\* visited before
EmptyStore == << <<>>, {} >>
InitialStores == {EmptyStore, << <<P2>>, {P2.componentChunkName} >>}

InitStore(store) ==
  /\ pages = store[1]
  /\ visitedPages = store[2]
  /\ derived = computed(pages, visitedPages)

InitProcess ==
  /\ listenerStarted = FALSE
  /\ startListenerCalls = "none"
  /\ handlers = [ev \in Events |-> 0]
  /\ timerId = FALSE
  /\ timerRemaining = 0
  /\ lastArgs = FALSE
  /\ lastCallTime = -1
  /\ pendingCalls = 0
  /\ lastBurst = 0
  /\ lastHash = <<>>
  /\ passes = [s \in Slots |-> IdlePass]
  /\ virtualModules = [m \in Modules |-> NoContent]
  /\ files = [f \in Files |-> NoContent]
  /\ tmpFiles = {}
  /\ lastCall = NoCall

Init ==
  /\ GATSBY_MAJOR = "4"
  /\ \E env \in Environments :
       /\ gatsby_executing_command = env[1]
       /\ GATSBY_EXPERIMENTAL_DEV_SSR = env[2]
  /\ \E store \in InitialStores : InitStore(store)
  /\ InitProcess
  /\ budget = MaxStimuli
  /\ failures = MaxFailures
  /\ fnArg = <<>>
  /\ fnRes = NotCalled
  /\ fnBase = NotCalled
  /\ NotRanked

Next ==
  \/ startListener
  \/ CreatePage
  \/ CreatePageEnd
  \/ DeletePage
  \/ DeletePageByPath
  \/ CreateServerVisitedPage
  \/ CallWriteAll
  \/ resetLastHash
  \/ timerExpired
  \/ Tick
  \/ WriteFileDone
  \/ WriteFileFail
  \/ MoveDone
  \/ MoveFail

Spec == Init /\ [][Next]_vars


(***************************************************************************)
(* The derivations of writeAll, lines 189-191, applied to page lists of    *)
(* every order: pages are the values of a Map keyed by path, so a list     *)
(* holds a page once.                                                      *)
(***************************************************************************)
PageLists ==
  {l \in UNION {[1..n -> AllPages] : n \in 0..MaxPages} :
     \A i, j \in 1..Len(l) : i # j => l[i] # l[j]}

derive(pageList) ==
  [called |-> TRUE, matchPaths |-> getMatchPaths(pageList),
   components |-> getComponents(pageList)]

\* lines 190-191 on the list at hand
Derive ==
  /\ ~fnRes.called
  /\ ~getMatchPathsPanics(fnArg)
  /\ fnRes' = derive(fnArg)
  /\ fnBase' = IF fnBase.called THEN fnBase ELSE derive(fnArg)
  /\ UNCHANGED <<fnArg, rankVars, envVars, storeVars, listenerVars, startListenerCalls,
                 debounceVars, writerVars, budget, failures>>

\* the same pages, inserted into the Map in another order
Reorder ==
  \E i \in 1..(Len(fnArg) - 1) :
    /\ fnArg' = [fnArg EXCEPT ![i] = fnArg[i + 1], ![i + 1] = fnArg[i]]
    /\ fnRes' = NotCalled
    /\ UNCHANGED <<fnBase, rankVars, envVars, storeVars, listenerVars, startListenerCalls,
                   debounceVars, writerVars, budget, failures>>

InitDerive ==
  /\ GATSBY_MAJOR \in {"3", "4"}
  /\ gatsby_executing_command = "build"
  /\ GATSBY_EXPERIMENTAL_DEV_SSR = FALSE
  /\ InitStore(EmptyStore)
  /\ InitProcess
  /\ budget = 0
  /\ failures = 0
  /\ fnArg \in PageLists
  /\ fnRes = NotCalled
  /\ fnBase = NotCalled
  /\ NotRanked

NextDerive ==
  \/ Derive
  \/ Reorder

SpecDerive == InitDerive /\ [][NextDerive]_vars

(***************************************************************************)
(* rankRoute applied to every path of up to MaxPathLen characters, and to  *)
(* the path with one more segment.                                         *)
(***************************************************************************)
PathChars == {"/", "*", ":", "a", "b"}
Paths == UNION {[1..n -> PathChars] : n \in 0..MaxPathLen}
\* a static, a dynamic and a splat segment
Segments == {<<"a">>, <<":", "a">>, <<"*">>}

\* the path with the segment as its last one
extend(path, seg) ==
  IF path # <<>> /\ path[Len(path)] = "/"
    THEN path \o seg
    ELSE path \o <<"/">> \o seg

\* rankRoute(rankedPath)
Rank ==
  /\ score = <<>>
  /\ score' = <<rankRoute(rankedPath)>>
  /\ UNCHANGED <<rankedPath, shorter, segment, fnArg, fnRes, fnBase, envVars, storeVars,
                 listenerVars, startListenerCalls, debounceVars, writerVars,
                 budget, failures>>

\* the next call is made with one more segment
Extend ==
  \E seg \in Segments :
    /\ score # <<>>
    /\ segment = <<>>
    /\ rankedPath' = extend(rankedPath, seg)
    /\ segment' = seg
    /\ shorter' = score
    /\ score' = <<>>
    /\ UNCHANGED <<fnArg, fnRes, fnBase, envVars, storeVars, listenerVars,
                   startListenerCalls, debounceVars, writerVars, budget, failures>>

InitRank ==
  /\ GATSBY_MAJOR = "4"
  /\ gatsby_executing_command = "build"
  /\ GATSBY_EXPERIMENTAL_DEV_SSR = FALSE
  /\ InitStore(EmptyStore)
  /\ InitProcess
  /\ budget = 0
  /\ failures = 0
  /\ fnArg = <<>>
  /\ fnRes = NotCalled
  /\ fnBase = NotCalled
  /\ rankedPath \in Paths
  /\ score = <<>>
  /\ shorter = <<>>
  /\ segment = <<>>

NextRank ==
  \/ Rank
  \/ Extend

SpecRank == InitRank /\ [][NextRank]_vars


\* the process under the fairness its scheduler gives: time passes, a due timer
\* fires, and a write or rename that has begun and does not fail completes
FairSpec ==
  /\ Init
  /\ [][Next]_vars
  /\ WF_vars(Tick)
  /\ WF_vars(timerExpired)
  /\ WF_vars(WriteFileDone)
  /\ WF_vars(MoveDone)

\* the variable derived is the derivation of the current store state
DerivedIsCurrent == derived = computed(pages, visitedPages)

(***************************************************************************)
(* Properties of the pipeline.                                             *)
(***************************************************************************)
\* writeAll invocations begun by the debounced function and not yet settled
InFlight ==
  {s \in Slots : passes[s].active /\ ~passes[s].rejected
                 /\ passes[s].origin = "debounced"}

\* C1: when a write of a writeAll call fails (its Promise rejects), lastHash is
\* the value it had before that call
C1_FailedWriteKeepsLastHash ==
  (lastCall.kind = "written" /\ lastCall.outcome = "rejected")
    => lastHash = lastCall.before

\* C2: at most one writeAll invocation started by debouncedWriteAll is in
\* flight at any time
C2_OneCycleInFlight == Cardinality(InFlight) <= 1

\* this step runs writeAll, and the call does not repeat a skip on the same state
WriteAllCalled ==
  /\ lastCall' # lastCall
  /\ lastCall'.kind \in {"written", "skipped"}
  /\ lastCall'.outcome \in {"pending", "none"}

\* C3: a writeAll call that follows a call that wrote and resolved, on the
\* same pages and visited set, returns false and writes nothing; and a call
\* skips its writes exactly when the new fingerprint equals lastHash
C3_UnchangedSecondCallSkips ==
  [][WriteAllCalled =>
       /\ (lastCall.kind = "written" /\ lastCall.outcome = "resolved"
           /\ lastCall.snapshot = <<pages, visitedPages>>)
            => lastCall'.kind = "skipped"
       /\ lastCall'.kind = "skipped"
            => UNCHANGED <<lastHash, passes, virtualModules, files, tmpFiles>>
       /\ lastCall'.kind = "skipped"
            <=> lastHash = <<hashOf(pages, visitedPages)>>
    ]_vars

\* a second call on the unchanged store state has returned false
C3_Witness ==
  /\ lastCall.kind = "skipped"
  /\ lastCall.repeat
  /\ lastCall.snapshot[1] # <<>>

\* this step runs the debounced function: on the trailing edge the timer is
\* cleared while a call is kept, on a leading edge it is armed and no call is kept
DebouncedRun ==
  \/ timerId /\ ~timerId' /\ lastArgs
  \/ ~timerId /\ timerId' /\ ~lastArgs'

\* C4: the debounced function runs only when 500 time units have passed since
\* the latest call of debouncedWriteAll, never in the step of a call, and one
\* run takes up all the calls made since the run before
C4_TrailingEdgeOnly ==
  [][DebouncedRun =>
       /\ lastCallTime' >= WAIT
       /\ lastArgs /\ ~lastArgs'
       /\ pendingCalls >= 1 /\ pendingCalls' = 0
       /\ budget' = budget
    ]_vars

\* a burst of two calls less than 500 apart has led to one run, which wrote
C4_Witness ==
  /\ lastBurst = 2
  /\ lastCall.kind = "written"
  /\ Cardinality(InFlight) = 1
  /\ ~lastArgs
  /\ ~timerId

\* C5: every call of debouncedWriteAll, also one made while a writeAll
\* invocation is in flight, is followed by a run of the debounced function,
\* and that run reads the store as it is then
C5_NotificationLeadsToRun ==
  lastArgs ~> (/\ ~lastArgs
               /\ lastCall.kind # "none"
               /\ lastCall.snapshot = <<pages, visitedPages>>
               /\ lastBurst >= 1)

\* a call made while an invocation was in flight has led to a second run
C5_Witness ==
  /\ lastCall.kind = "written"
  /\ lastCall.outcome = "pending"
  /\ passes[lastCall.slot].origin = "debounced"
  /\ \E s \in InFlight : s # lastCall.slot
  /\ ~lastArgs

\* C6: a writeAll call one of whose writes fails renames none of its files
\* onto the destinations a prior run committed
C6_FailedStepLeavesDestinations ==
  \A s \in Slots :
    (passes[s].active /\ passes[s].rejected /\ passes[s].committed)
      => \A f \in Files : passes[s].fileState[f] # "done"

\* C7: each event name has at most one handler, whatever the number of
\* startListener calls: the first call registers, the later ones do not
C7_ListenerRegisteredOnce ==
  \A ev \in Events :
    /\ handlers[ev] <= 1
    /\ listenerStarted => handlers[ev] = (IF subscribed(ev) THEN 1 ELSE 0)

\* startListener has been called again after it had registered the handlers
C7_Witness ==
  /\ startListenerCalls = "again"
  /\ listenerStarted
  /\ handlers["CREATE_PAGE"] = 1

(***************************************************************************)
(* Properties of getMatchPaths.                                            *)
(***************************************************************************)
\* C8: getMatchPaths returns the same sequence for every order of the same
\* pages, also when two pages have the same matchPath and different paths
C8_OutputIndependentOfInputOrder ==
  (fnRes.called /\ fnBase.called) => fnRes.matchPaths = fnBase.matchPaths

\* the score the sort gave an entry of the output
scoreOf(entry) == rankRoute(entry.matchPath)

\* the positions of the output that have a successor
AdjacentPairs == 1..(Len(fnRes.matchPaths) - 1)

InputPages == {fnArg[i] : i \in 1..Len(fnArg)}
OutputEntries == {fnRes.matchPaths[i] : i \in 1..Len(fnRes.matchPaths)}

\* the entries to expect when the pages in withPattern give the patterns
expectedEntries(withPattern) ==
  {[path |-> p.path, matchPath |-> p.matchPath] : p \in withPattern}
  \cup
  {[path |-> p.path, matchPath |-> p.path] :
     p \in {q \in InputPages :
              /\ q.matchPath = Undefined
              /\ \E w \in withPattern : match(w.matchPath, q.path)}}

\* the output holds the expected entries, each once, and no others
outputIsExactly(expected) ==
  /\ OutputEntries = expected
  /\ Len(fnRes.matchPaths) = Cardinality(expected)

\* C10 as stated: the output is one entry for every page with a matchPath
\* and one {path, matchPath: path} entry for every page without a matchPath
\* whose path one of those matchPaths matches; nothing else
C10_EntriesOfEveryMatchPath ==
  fnRes.called =>
    outputIsExactly(expectedEntries({p \in InputPages : p.matchPath # Undefined}))

\* C10: the pages that give an entry of their own and a pattern are the
\* pages with a matchPath and, when GATSBY_MAJOR is "4", of page mode SSG;
\* the output is one entry for each of them and one {path, matchPath: path}
\* entry for every page without a matchPath whose path one of their
\* matchPaths matches; nothing else, and nothing when there is no such page
C10_EntriesOfCollectedMatchPaths ==
  fnRes.called =>
    LET withPattern ==
          {p \in InputPages :
             /\ p.matchPath # Undefined
             /\ GATSBY_MAJOR = "4" => getPageMode(p) = "SSG"}
    IN  /\ outputIsExactly(expectedEntries(withPattern))
        /\ withPattern = {} => fnRes.matchPaths = <<>>

\* an output with a page's own entry and an implicit one, from a list that
\* also holds a page without a matchPath that no pattern matches and, in a
\* GATSBY_MAJOR 4 build, a page with a matchPath whose mode is not SSG
C10_Witness ==
  /\ fnRes.called
  /\ GATSBY_MAJOR = "4"
  /\ P5 \in InputPages
  /\ \E e \in OutputEntries : e.matchPath # e.path
  /\ \E e \in OutputEntries : e.matchPath = e.path
  /\ Len(fnRes.matchPaths) < Len(fnArg)

\* the entry at position i was synthesized for a page without a matchPath
isSynthesized(i) ==
  \E p \in InputPages :
    /\ p.matchPath = Undefined
    /\ fnRes.matchPaths[i] = [path |-> p.path, matchPath |-> p.path]

\* the entry at position j is the entry of a page's own matchPath
isPatternEntry(j) ==
  \E p \in InputPages :
    /\ p.matchPath # Undefined
    /\ fnRes.matchPaths[j] = [path |-> p.path, matchPath |-> p.matchPath]

\* C11: in the output every entry synthesized for a page without a matchPath
\* comes before every entry of a pattern that matches the page's path
C11_ConcretePageBeforeItsPatterns ==
  fnRes.called =>
    \A i, j \in 1..Len(fnRes.matchPaths) :
      (/\ isSynthesized(i)
       /\ isPatternEntry(j)
       /\ match(fnRes.matchPaths[j].matchPath, fnRes.matchPaths[i].path))
        => i < j

(***************************************************************************)
(* Properties of rankRoute.                                                *)
(***************************************************************************)
\* the path without its leading and trailing slashes, by positions
core(path) ==
  LET inner == {i \in 1..Len(path) : path[i] # "/"}
  IN  IF inner = {} THEN <<>>
      ELSE SubSeq(path,
                  CHOOSE i \in inner : \A k \in inner : i <= k,
                  CHOOSE j \in inner : \A k \in inner : k <= j)

\* the segments of a stripped path, each named by the position before its
\* first character: 0 and the positions of the slashes
segmentStarts(c) == {0} \cup {i \in 1..Len(c) : c[i] = "/"}

segmentFrom(c, start) ==
  LET ends == {e \in (start + 1)..(Len(c) + 1) : e = Len(c) + 1 \/ c[e] = "/"}
  IN  SubSeq(c, start + 1, (CHOOSE e \in ends : \A k \in ends : e <= k) - 1)

\* the number of segments of the stripped path that are of a kind
countOf(c, kind(_)) == Cardinality({st \in segmentStarts(c) : kind(segmentFrom(c, st))})

isEmptySegment(seg) == seg = <<>>
isParamSegment(seg) == Len(seg) >= 2 /\ seg[1] = ":"
isStarSegment(seg) == seg = <<"*">>
isOtherSegment(seg) ==
  ~isEmptySegment(seg) /\ ~isParamSegment(seg) /\ ~isStarSegment(seg)

expectedScore(path) ==
  LET c == core(path)
  IN  5 * countOf(c, isEmptySegment) + 6 * countOf(c, isParamSegment)
      - countOf(c, isStarSegment) + 7 * countOf(c, isOtherSegment)

\* C12: rankRoute(path) is the sum over the segments of the stripped path of
\* 5 for an empty segment, 6 for a dynamic one, -1 for "*" and 7 for any
\* other; so "/" gives 5, "a/b" gives 14, "/a/b/" gives what "a/b" gives,
\* "a/:a" gives less than "a/b" and "a/*" less than "a/:a"
C12_RankRouteIsSumOfSegmentPoints ==
  score # <<>> =>
    /\ score[1] = expectedScore(rankedPath)
    /\ rankedPath = <<"/">> => score[1] = 5
    /\ rankedPath = <<"a", "/", "b">> => score[1] = 14
    /\ rankedPath = <<"/", "a", "/", "b", "/">> => score[1] = rankRoute(<<"a", "/", "b">>)
    /\ rankedPath = <<"a", "/", ":", "a">> => score[1] < rankRoute(<<"a", "/", "b">>)
    /\ rankedPath = <<"a", "/", "*">> => score[1] < rankRoute(<<"a", "/", ":", "a">>)

\* rankRoute has been applied to a path with slashes at both ends
C12_Witness ==
  /\ rankedPath = <<"/", "a", "/", "b", "/">>
  /\ score = <<14>>

(***************************************************************************)
(* Properties of getComponents.                                            *)
(***************************************************************************)
\* the componentChunkName values of the input pages
InputChunkNames == {p.componentChunkName : p \in InputPages}

\* C13: the componentChunkName values of the records getComponents returns
\* are strictly ascending, hence pairwise distinct, and are exactly the
\* values that occur in the input pages, for every order of the input
C13_ComponentsUniqueAndAscending ==
  fnRes.called =>
    LET out == fnRes.components
    IN  /\ \A i \in 1..(Len(out) - 1) :
             stringLess(out[i].componentChunkName, out[i + 1].componentChunkName)
        /\ \A i, j \in 1..Len(out) :
             i # j => out[i].componentChunkName # out[j].componentChunkName
        /\ {out[i].componentChunkName : i \in 1..Len(out)} = InputChunkNames
        /\ fnBase.called =>
             [i \in 1..Len(out) |-> out[i].componentChunkName]
               = [i \in 1..Len(fnBase.components) |->
                    fnBase.components[i].componentChunkName]

\* three pages, two of one chunk name, handed in in descending order of the
\* names and then reordered, have given two records
C13_Witness ==
  /\ fnRes.called
  /\ Len(fnArg) = 3
  /\ Len(fnRes.components) = 2
  /\ stringLess(fnArg[2].componentChunkName, fnArg[1].componentChunkName)
  /\ fnBase.called
  /\ fnBase.components # fnRes.components

\* the first page of the input with the chunk name
firstPageOf(name) ==
  fnArg[CHOOSE i \in 1..Len(fnArg) :
          /\ fnArg[i].componentChunkName = name
          /\ \A k \in 1..(i - 1) : fnArg[k].componentChunkName # name]

\* C14: the record getComponents returns for a chunk name carries the
\* component of the first page of the input, in input order, with that name
C14_FirstOccurrenceWins ==
  fnRes.called =>
    \A i \in 1..Len(fnRes.components) :
      fnRes.components[i].component
        = firstPageOf(fnRes.components[i].componentChunkName).component

\* two pages of one chunk name and different components, the later of them
\* with the component that is not returned
C14_Witness ==
  /\ fnRes.called
  /\ \E i, j \in 1..Len(fnArg) :
       /\ i < j
       /\ fnArg[i].componentChunkName = fnArg[j].componentChunkName
       /\ fnArg[i].component # fnArg[j].component
       /\ \E k \in 1..Len(fnRes.components) :
            fnRes.components[k] = pickComponentFields(fnArg[i])

(***************************************************************************)
(* Properties of the artifacts.                                            *)
(***************************************************************************)
\* C15: the ssr-sync-requires module is written only when
\* GATSBY_EXPERIMENTAL_DEV_SSR is set, and what the latest writing call of
\* writeAll wrote into it are the components of the catalog, in catalog
\* order, whose chunk name is in the visited set the call read; without the
\* flag the module is never written and the list in the fingerprint is empty
C15_SsrModuleIsVisitedCatalog ==
  LET written == virtualModules["$virtual/ssr-sync-requires"]
      catalog == getComponents(lastCall.snapshot[1])
      visited == lastCall.snapshot[2]
  IN  /\ ~GATSBY_EXPERIMENTAL_DEV_SSR =>
           /\ written = NoContent
           /\ lastHash # <<>> => lastHash[1].cleanedSSRVisitedPageComponents = <<>>
      /\ (GATSBY_EXPERIMENTAL_DEV_SSR /\ lastCall.kind = "written") =>
           /\ written.kind = "exports.ssrComponents"
           /\ written.entries =
                SelectSeq(catalog, LAMBDA c : c.componentChunkName \in visited)
           /\ \A i \in 1..Len(written.entries) :
                \E k \in 1..Len(lastCall.snapshot[1]) :
                  lastCall.snapshot[1][k].componentChunkName
                    = written.entries[i].componentChunkName

\* the module has been written with the components of two visited pages, in
\* the order of the catalog and not of the pages
C15_Witness ==
  /\ GATSBY_EXPERIMENTAL_DEV_SSR
  /\ lastCall.kind = "written"
  /\ pages = <<P2, P1>>
  /\ virtualModules["$virtual/ssr-sync-requires"].entries
       = <<pickComponentFields(P1), pickComponentFields(P2)>>

\* C17: when no writeAll invocation has a write outstanding and lastHash is
\* not null, every destination file holds the body derived from the inputs
\* whose fingerprint is lastHash
C17_FilesAreThoseOfLastHash ==
  (lastHash # <<>> /\ \A s \in Slots : ~passes[s].active)
    => \A f \in Files : files[f] = fileData(f, lastHash[1])

\* C18: every temporary file in .cache is that of a writeAndMove whose
\* fs.writeFile has resolved and whose fs.move has not yet settled: none is
\* left by a write or a rename that failed, none outlives its invocation
C18_NoTempFileLeftBehind ==
  \A t \in tmpFiles :
    /\ t[2] \in Slots
    /\ passes[t[2]].active
    /\ passes[t[2]].fileState[t[1]] = "moving"

\* both calls of rankRoute have been made: on a path, and on it with a segment
RankedTwice == shorter # <<>> /\ score # <<>>

\* the longer path up to the slash before the added segment
pathBefore == SubSeq(rankedPath, 1, Len(rankedPath) - Len(segment) - 1)

\* C19 as stated: rankRoute of a path with one more segment, be the segment
\* static, dynamic or a splat, is greater than rankRoute of the path
C19_LongerScoresHigher == RankedTwice => score[1] > shorter[1]

\* C19: rankRoute of a path with one more static or dynamic segment is
\* greater than rankRoute of the path; with one more splat segment it is
\* less by 1 when the path ends in a segment, and -1 against 5 when the
\* path is empty or holds slashes only
C19_LongerScoresHigherUnlessSplat ==
  RankedTwice =>
    /\ segment # <<"*">> => score[1] > shorter[1]
    /\ (segment = <<"*">> /\ pathBefore # <<>>
        /\ pathBefore[Len(pathBefore)] # "/")
         => score[1] = shorter[1] - 1
    /\ (segment = <<"*">> /\ core(pathBefore) = <<>>)
         => score[1] = -1 /\ shorter[1] = 5

\* "a" has been ranked 7 and "a/:a" 13
C19_Witness ==
  /\ RankedTwice
  /\ rankedPath = <<"a", "/", ":", "a">>
  /\ segment = <<":", "a">>
  /\ shorter = <<7>>
  /\ score = <<13>>

=============================================================================
